---- MODULE Spec2Model ----
(***************************************************************************)
(* Lidex: durable workflow execution on top of a passive persistence       *)
(* provider (src/src/index.ts).  The model holds the provider's workflow   *)
(* records, every in-flight run(workflowId) invocation with its position   *)
(* in the handler, the poll loop of every worker, and a client's wait.     *)
(*                                                                         *)
(* Atomicity.  One action is one persistence call taking effect, followed  *)
(* by the synchronous code that runs when the call resolves, up to the     *)
(* next await.  A user fn and a goSleep timer are awaited like a call and  *)
(* take arbitrarily long.  `new Date()` is read at the instant the call    *)
(* that uses it takes effect.                                              *)
(*                                                                         *)
(* Time.  Every instant is held relative to the current one: now is 0, an  *)
(* instant t > 0 lies t ticks ahead, and Tick moves every held instant one *)
(* tick closer.  An instant before now is held as Past: the code only      *)
(* asks timeoutAt < now and wakeUpAt - now > 0, which the cut preserves.   *)
(*                                                                         *)
(* undefined.  A JavaScript value that may be undefined is held as a       *)
(* tuple: Undefined is <<>>, and a defined value v is <<v>>.               *)
(***************************************************************************)
EXTENDS Integers, Sequences, FiniteSets, TLC

VARIABLES
    store,      \* the persistence provider: workflow id -> workflow record
    runs,       \* slot -> in-flight run(workflowId) invocation, or Free
    poller,     \* worker -> state of its poll(shouldStop) loop
    rejected,   \* the errors that run invocations have rejected with
    crashes,    \* number of worker crashes so far
    waiter      \* the client's wait(workflowId, status, times, ms) call

vars == <<store, runs, poller, rejected, crashes, waiter>>

----------------------------------------------------------------------------
(* Bounds of the model *)

MaxRuns == 2        \* run invocations in flight at once, over all workers
MaxCrashes == 1     \* worker crashes in one behaviour
MaxTimes == 3       \* polls that one wait call is asked to make

(* Worker configuration (WorkerConfig), in ticks *)

maxFailures == 2
timeoutIntervalMs == 2
pollIntervalMs == 1
retryIntervalMs == 1

Workers == {"w1", "w2"}
WorkflowIds == {"W", "V"}
Slots == 1..MaxRuns

----------------------------------------------------------------------------
(* Values *)

Undefined == <<>>
Def(v) == <<v>>
Val(o) == o[1]

now == 0
Past == -1

Max(a, b) == IF a >= b THEN a ELSE b

\* The instant t, one tick later.
Later(t) == Max(t - 1, Past)

\* The instant a timer fires at, one tick later: a timer that is due stays due.
TimerLater(t) == Max(t - 1, now)

\* The possibly undefined instant o, one tick later.
LaterOpt(o) == IF o = Undefined THEN Undefined ELSE Def(Later(Val(o)))

EmptyMap == [k \in {} |-> Undefined]

Put(m, k, v) == [x \in DOMAIN m \cup {k} |-> IF x = k THEN v ELSE m[x]]

----------------------------------------------------------------------------
(* Handlers: the user code.  A handler is the sequence of the Context      *)
(* calls it makes; a step's fn returns one of `outs`, or throws one of      *)
(* `throws`.  h is the handler of two deterministic steps, boom always     *)
(* throws, pick has a step whose fn is not deterministic, flaky a step     *)
(* whose fn may throw, void a step whose fn returns nothing, nap sleeps    *)
(* before its step, and spawn starts workflow V.                           *)

Error(message) == [isError |-> TRUE, value |-> message]
Thrown(value) == [isError |-> FALSE, value |-> value]

Step(id, outs, throws) == [op |-> "step", id |-> id, outs |-> outs, throws |-> throws]
Sleep(id, ms) == [op |-> "sleep", id |-> id, ms |-> ms]
StartOp(id, handler, input) == [op |-> "start", id |-> id, handler |-> handler, input |-> input]
Throw(error) == [op |-> "throw", error |-> error]

handlers ==
    [ h     |-> << Step("a", {Def(10)}, {}), Step("b", {Def(20)}, {}) >>,
      boom  |-> << Throw(Error("boom")) >>,
      pick  |-> << Step("s", {Def(1), Def(2)}, {}) >>,
      flaky |-> << Step("s", {Def(1)}, {Thrown("kapot")}) >>,
      void  |-> << Step("v", {Undefined}, {}) >>,
      nap   |-> << Sleep("n", 3), Step("done", {Def(1)}, {}) >>,
      spawn |-> << StartOp("V", "void", 2) >> ]

\* Everything a step's fn of these handlers returns, and everything it throws.
Outputs == {Undefined, Def(1), Def(2), Def(10), Def(20)}
Errors == {Thrown("kapot")}

----------------------------------------------------------------------------
(* The persistence provider (interface Persistence).  Every operation is   *)
(* atomic and unconditional unless its contract states a condition.        *)

\* insert, but a workflow that exists is replaced by the new one.
insertReplaces(s, workflowId, handler, input) ==
    <<Put(s, workflowId,
          [handler |-> handler, input |-> input, status |-> "idle",
           timeoutAt |-> Undefined, failures |-> Undefined,
           lastError |-> Undefined, steps |-> EmptyMap, naps |-> EmptyMap]),
      workflowId \notin DOMAIN s>>

\* insert: creates an idle workflow; the second component is its result.
insert(s, workflowId, handler, input) ==
    IF workflowId \in DOMAIN s
    THEN <<s, FALSE>>
    ELSE <<Put(s, workflowId,
               [handler |-> handler, input |-> input, status |-> "idle",
                timeoutAt |-> Undefined, failures |-> Undefined,
                lastError |-> Undefined, steps |-> EmptyMap, naps |-> EmptyMap]),
           TRUE>>

\* Ready, but a running or failed workflow is ready from the instant of its
\* timeout on, one instant early.
ReadyAtDeadline(s, t) ==
    {id \in DOMAIN s :
        \/ s[id].status = "idle"
        \/ /\ s[id].status \in {"running", "failed"}
           /\ s[id].timeoutAt # Undefined
           /\ Val(s[id].timeoutAt) <= t}

\* Ready, but a failed workflow is never ready again.
ReadyNotFailed(s, t) ==
    {id \in DOMAIN s :
        \/ s[id].status = "idle"
        \/ /\ s[id].status = "running"
           /\ s[id].timeoutAt # Undefined
           /\ Val(s[id].timeoutAt) < t}

\* claim, step 1: the workflows that are ready to run at instant t.
\* Ready, but a running workflow is never ready again.
ReadyNeverRunning(s, t) ==
    {id \in DOMAIN s :
        \/ s[id].status = "idle"
        \/ /\ s[id].status = "failed"
           /\ s[id].timeoutAt # Undefined
           /\ Val(s[id].timeoutAt) < t}

Ready(s, t) ==
    {id \in DOMAIN s :
        \/ s[id].status = "idle"
        \/ /\ s[id].status \in {"running", "failed"}
           /\ s[id].timeoutAt # Undefined
           /\ Val(s[id].timeoutAt) < t}

\* claim, step 2: the ready workflow id is set to running with the new timeout.
\* claim, but the timeout of the claimed workflow is left as it was.
claimKeepsTimeoutAt(s, id, timeoutAt) == [s EXCEPT ![id].status = "running"]

claim(s, id, timeoutAt) ==
    [s EXCEPT ![id].status = "running", ![id].timeoutAt = Def(timeoutAt)]

findOutput(s, workflowId, stepId) ==
    IF workflowId \in DOMAIN s /\ stepId \in DOMAIN s[workflowId].steps
    THEN s[workflowId].steps[stepId]
    ELSE Undefined

findWakeUpAt(s, workflowId, napId) ==
    IF workflowId \in DOMAIN s /\ napId \in DOMAIN s[workflowId].naps
    THEN Def(s[workflowId].naps[napId])
    ELSE Undefined

findRunData(s, workflowId) ==
    IF workflowId \in DOMAIN s
    THEN Def([handler |-> s[workflowId].handler, input |-> s[workflowId].input,
              failures |-> s[workflowId].failures])
    ELSE Undefined

findStatus(s, workflowId) ==
    IF workflowId \in DOMAIN s THEN Def(s[workflowId].status) ELSE Undefined

setAsFinished(s, workflowId) ==
    IF workflowId \in DOMAIN s
    THEN [s EXCEPT ![workflowId].status = "finished"]
    ELSE s

updateStatus(s, workflowId, status, timeoutAt, failures, lastError) ==
    IF workflowId \in DOMAIN s
    THEN [s EXCEPT ![workflowId].status = status,
                   ![workflowId].timeoutAt = Def(timeoutAt),
                   ![workflowId].failures = Def(failures),
                   ![workflowId].lastError = Def(lastError)]
    ELSE s

updateOutput(s, workflowId, stepId, output, timeoutAt) ==
    IF workflowId \in DOMAIN s
    THEN [s EXCEPT ![workflowId].steps = Put(@, stepId, output),
                   ![workflowId].timeoutAt = Def(timeoutAt)]
    ELSE s

\* updateWakeUpAt, but the timeout is left as it was.
updateWakeUpAtKeepsTimeout(s, workflowId, napId, wakeUpAt, timeoutAt) ==
    IF workflowId \in DOMAIN s
    THEN [s EXCEPT ![workflowId].naps = Put(@, napId, wakeUpAt)]
    ELSE s

updateWakeUpAt(s, workflowId, napId, wakeUpAt, timeoutAt) ==
    IF workflowId \in DOMAIN s
    THEN [s EXCEPT ![workflowId].naps = Put(@, napId, wakeUpAt),
                   ![workflowId].timeoutAt = Def(timeoutAt)]
    ELSE s

----------------------------------------------------------------------------
(* Shared code and client code *)

\* makeStart, but start always answers true.
makeStartAnswersTrue(s, workflowId, handler, input) ==
    <<insert(s, workflowId, handler, input)[1], TRUE>>

\* makeStart: start is persistence.insert.
makeStart(s, workflowId, handler, input) == insert(s, workflowId, handler, input)

\* The client's start(id, handler, input).
Start(id, handler, input) ==
    /\ store' = makeStart(store, id, handler, input)[1]
    /\ UNCHANGED <<runs, poller, rejected, crashes, waiter>>

\* The statuses a workflow can have (type Status).
Status == {"idle", "running", "failed", "finished", "aborted"}

\* No wait call has been made.  A wait call holds its arguments, the loop
\* counter i, the instant its goSleep resolves at and what it returned; the
\* answers of its findStatus calls, in order (found), and the number of its
\* goSleep calls (delays) are kept beside them to tell what the call has done.
NoWait ==
    [pc |-> "off", workflowId |-> "W", status |-> {}, times |-> 0, ms |-> 0,
     i |-> 0, wakeAt |-> now, found |-> <<>>, delays |-> 0, ret |-> Undefined]

\* WaitLoop, but the loop condition is i <= times.
WaitLoopOneMore(c, i) ==
    IF i <= c.times
    THEN [c EXCEPT !.pc = "findStatus", !.i = i]
    ELSE [c EXCEPT !.pc = "returned", !.i = i, !.ret = Undefined]

\* makeWait: the for loop at its condition with counter i, up to the next
\* await: findStatus, or the return of undefined after the loop.
WaitLoop(c, i) ==
    IF i < c.times
    THEN [c EXCEPT !.pc = "findStatus", !.i = i]
    ELSE [c EXCEPT !.pc = "returned", !.i = i, !.ret = Undefined]

\* The client's wait(workflowId, status, times, ms).
Wait(workflowId, status, times, ms) ==
    /\ waiter.pc = "off"
    /\ waiter' = WaitLoop([NoWait EXCEPT !.workflowId = workflowId, !.status = status,
                                         !.times = times, !.ms = ms], 0)
    /\ UNCHANGED <<store, runs, poller, rejected, crashes>>

\* WaitFindStatus, but no goSleep follows the last poll of the loop.
WaitFindStatusNoLastDelay ==
    LET foundStatus == findStatus(store, waiter.workflowId)
        c == [waiter EXCEPT !.found = Append(@, foundStatus)] IN
    /\ waiter.pc = "findStatus"
    /\ waiter' = IF foundStatus # Undefined /\ Val(foundStatus) \in waiter.status
                 THEN [c EXCEPT !.pc = "returned", !.ret = foundStatus]
                 ELSE IF waiter.i + 1 >= waiter.times
                      THEN [c EXCEPT !.pc = "returned", !.ret = Undefined]
                      ELSE [c EXCEPT !.pc = "goSleep", !.wakeAt = now + waiter.ms,
                                     !.delays = @ + 1]
    /\ UNCHANGED <<store, runs, poller, rejected, crashes>>

\* makeWait: findStatus answers; a status that is among the awaited ones is
\* returned, otherwise goSleep(ms) is awaited.
WaitFindStatus ==
    LET foundStatus == findStatus(store, waiter.workflowId)
        c == [waiter EXCEPT !.found = Append(@, foundStatus)] IN
    /\ waiter.pc = "findStatus"
    /\ waiter' = IF foundStatus # Undefined /\ Val(foundStatus) \in waiter.status
                 THEN [c EXCEPT !.pc = "returned", !.ret = foundStatus]
                 ELSE [c EXCEPT !.pc = "goSleep", !.wakeAt = now + waiter.ms,
                                !.delays = @ + 1]
    /\ UNCHANGED <<store, runs, poller, rejected, crashes>>

\* makeWait: goSleep resolves, and the loop goes to its next iteration.
WaitWake ==
    /\ waiter.pc = "goSleep"
    /\ waiter.wakeAt <= now
    /\ waiter' = WaitLoop(waiter, waiter.i + 1)
    /\ UNCHANGED <<store, runs, poller, rejected, crashes>>

----------------------------------------------------------------------------
(* Worker code: one run(workflowId) invocation *)

Free == [pc |-> "free"]

InFlight == {e \in Slots : runs[e].pc # "free"}

\* The step ids whose fn the run r has invoked, in order (r.invoked), are kept
\* beside the run's own state to tell what an execution has done.

\* The lowest free slot; a spawned run takes it.
FreeSlot == CHOOSE e \in Slots : runs[e].pc = "free" /\ \A f \in Slots : runs[f].pc = "free" => e <= f

\* run(workflowId) as the poll loop spawns it: findRunData is awaited first.
NewRun(w, workflowId) ==
    [pc |-> "findRunData", worker |-> w, workflowId |-> workflowId,
     handler |-> Undefined, input |-> Undefined, failures |-> Undefined,
     ip |-> 0, out |-> Undefined, ret |-> Undefined, error |-> Undefined,
     wakeAt |-> now, invoked |-> <<>>]

Program(r) == handlers[Val(r.handler)]

Instr(r) == Program(r)[r.ip]

\* The handler goes on to its ip-th Context call, up to the next await: the
\* first persistence call of a step, sleep or start; the catch block of run,
\* awaiting updateStatus, when the handler throws; setAsFinished when the
\* handler has returned.
Continue(r, ip) ==
    LET q == [r EXCEPT !.ip = ip, !.out = Undefined, !.wakeAt = now] IN
    IF ip > Len(Program(r))
    THEN [q EXCEPT !.pc = "setAsFinished"]
    ELSE CASE Program(r)[ip].op = "step"  -> [q EXCEPT !.pc = "findOutput"]
           [] Program(r)[ip].op = "sleep" -> [q EXCEPT !.pc = "findWakeUpAt"]
           [] Program(r)[ip].op = "start" -> [q EXCEPT !.pc = "insert"]
           [] Program(r)[ip].op = "throw" ->
                [q EXCEPT !.pc = "updateStatus", !.error = Def(Program(r)[ip].error)]

\* OrZero, but the failures loaded are forgotten.
OrZeroForgets(failures) == 0

\* runData.failures || 0
OrZero(failures) == IF failures = Undefined \/ failures = Def(0) THEN 0 ELSE Val(failures)

\* The text run records for a caught error.
LastError(error) ==
    IF error.isError THEN error.value ELSE "\"" \o error.value \o "\""

\* RunFindRunData, but run returns quietly when the workflow is not found.
RunFindRunDataSwallowsNotFound(e) ==
    LET r == runs[e]
        runData == findRunData(store, r.workflowId)
        fn == IF runData # Undefined /\ Val(runData).handler \in DOMAIN handlers
              THEN Def(Val(runData).handler) ELSE Undefined IN
    /\ r.pc = "findRunData"
    /\ IF runData = Undefined
       THEN /\ rejected' = rejected
            /\ runs' = [runs EXCEPT ![e] = Free]
       ELSE IF fn = Undefined
       THEN /\ rejected' = rejected \cup {"handler not found: " \o Val(runData).handler}
            /\ runs' = [runs EXCEPT ![e] = Free]
       ELSE /\ rejected' = rejected
            /\ runs' = [runs EXCEPT ![e] =
                    Continue([r EXCEPT !.handler = fn,
                                       !.input = Def(Val(runData).input),
                                       !.failures = Val(runData).failures], 1)]
    /\ UNCHANGED <<store, poller, crashes, waiter>>

\* RunFindRunData, but a handler that is not found counts as a failure of the
\* handler: run goes to its catch block.
RunFindRunDataFailsUnknownHandler(e) ==
    LET r == runs[e]
        runData == findRunData(store, r.workflowId)
        fn == IF runData # Undefined /\ Val(runData).handler \in DOMAIN handlers
              THEN Def(Val(runData).handler) ELSE Undefined IN
    /\ r.pc = "findRunData"
    /\ IF runData = Undefined
       THEN /\ rejected' = rejected \cup {"workflow not found: " \o r.workflowId}
            /\ runs' = [runs EXCEPT ![e] = Free]
       ELSE IF fn = Undefined
       THEN /\ rejected' = rejected
            /\ runs' = [runs EXCEPT ![e] =
                    [r EXCEPT !.pc = "updateStatus",
                              !.failures = Val(runData).failures,
                              !.error = Def(Error("handler not found: " \o Val(runData).handler))]]
       ELSE /\ rejected' = rejected
            /\ runs' = [runs EXCEPT ![e] =
                    Continue([r EXCEPT !.handler = fn,
                                       !.input = Def(Val(runData).input),
                                       !.failures = Val(runData).failures], 1)]
    /\ UNCHANGED <<store, poller, crashes, waiter>>

\* makeRun, up to the invocation of the handler: the run data is loaded and
\* the handler is looked up; run rejects when either is missing.
RunFindRunData(e) ==
    LET r == runs[e]
        runData == findRunData(store, r.workflowId)
        fn == IF runData # Undefined /\ Val(runData).handler \in DOMAIN handlers
              THEN Def(Val(runData).handler) ELSE Undefined IN
    /\ r.pc = "findRunData"
    /\ IF runData = Undefined
       THEN /\ rejected' = rejected \cup {"workflow not found: " \o r.workflowId}
            /\ runs' = [runs EXCEPT ![e] = Free]
       ELSE IF fn = Undefined
       THEN /\ rejected' = rejected \cup {"handler not found: " \o Val(runData).handler}
            /\ runs' = [runs EXCEPT ![e] = Free]
       ELSE /\ rejected' = rejected
            /\ runs' = [runs EXCEPT ![e] =
                    Continue([r EXCEPT !.handler = fn,
                                       !.input = Def(Val(runData).input),
                                       !.failures = Val(runData).failures], 1)]
    /\ UNCHANGED <<store, poller, crashes, waiter>>

\* StepFindOutput, but the recorded output is ignored: fn is always invoked.
StepFindOutputNoMemo(e) ==
    LET r == runs[e] IN
    /\ r.pc = "findOutput"
    /\ runs' = [runs EXCEPT ![e] = [r EXCEPT !.pc = "fn", !.invoked = Append(@, Instr(r).id)]]
    /\ UNCHANGED <<store, poller, rejected, crashes, waiter>>

\* makeMakeStep, the lookup: a recorded output is returned; with none, fn is invoked.
StepFindOutput(e) ==
    LET r == runs[e]
        output == findOutput(store, r.workflowId, Instr(r).id) IN
    /\ r.pc = "findOutput"
    /\ runs' = [runs EXCEPT ![e] =
            IF ~(output = Undefined)
            THEN Continue([r EXCEPT !.ret = output], r.ip + 1)
            ELSE [r EXCEPT !.pc = "fn", !.invoked = Append(@, Instr(r).id)]]
    /\ UNCHANGED <<store, poller, rejected, crashes, waiter>>

\* fn returns output: step goes on to record it.
StepFnReturn(e, output) ==
    LET r == runs[e] IN
    /\ r.pc = "fn"
    /\ output \in Instr(r).outs
    /\ runs' = [runs EXCEPT ![e] = [r EXCEPT !.pc = "updateOutput", !.out = output]]
    /\ UNCHANGED <<store, poller, rejected, crashes, waiter>>

\* StepFnThrow, but step swallows the error and the handler goes on.
StepFnThrowSwallowed(e, error) ==
    LET r == runs[e] IN
    /\ r.pc = "fn"
    /\ error \in Instr(r).throws
    /\ runs' = [runs EXCEPT ![e] = Continue([r EXCEPT !.ret = Undefined], r.ip + 1)]
    /\ UNCHANGED <<store, poller, rejected, crashes, waiter>>

\* fn throws: the error leaves step and the handler, and run catches it.
StepFnThrow(e, error) ==
    LET r == runs[e] IN
    /\ r.pc = "fn"
    /\ error \in Instr(r).throws
    /\ runs' = [runs EXCEPT ![e] = [r EXCEPT !.pc = "updateStatus", !.error = Def(error)]]
    /\ UNCHANGED <<store, poller, rejected, crashes, waiter>>

\* StepUpdateOutput, but the timeout is left as it was.
StepUpdateOutputStaleTimeout(e) ==
    LET r == runs[e] IN
    /\ r.pc = "updateOutput"
    /\ store' = [store EXCEPT ![r.workflowId].steps = Put(@, Instr(r).id, r.out)]
    /\ runs' = [runs EXCEPT ![e] = Continue([r EXCEPT !.ret = r.out], r.ip + 1)]
    /\ UNCHANGED <<poller, rejected, crashes, waiter>>

\* makeMakeStep, the record: the output is stored with a refreshed timeout and returned.
StepUpdateOutput(e) ==
    LET r == runs[e]
        timeoutAt == now + timeoutIntervalMs IN
    /\ r.pc = "updateOutput"
    /\ store' = updateOutput(store, r.workflowId, Instr(r).id, r.out, timeoutAt)
    /\ runs' = [runs EXCEPT ![e] = Continue([r EXCEPT !.ret = r.out], r.ip + 1)]
    /\ UNCHANGED <<poller, rejected, crashes, waiter>>

\* RunUpdateStatus, but the workflow is aborted one failure late.
RunUpdateStatusOneLate(e) ==
    LET r == runs[e]
        lastError == LastError(Val(r.error))
        failures == OrZero(r.failures) + 1
        status == IF failures <= maxFailures THEN "failed" ELSE "aborted"
        timeoutAt == now + retryIntervalMs IN
    /\ r.pc = "updateStatus"
    /\ store' = updateStatus(store, r.workflowId, status, timeoutAt, failures, lastError)
    /\ runs' = [runs EXCEPT ![e] = Free]
    /\ UNCHANGED <<poller, rejected, crashes, waiter>>

\* makeRun, the catch block: the failure is recorded and run returns.
RunUpdateStatus(e) ==
    LET r == runs[e]
        lastError == LastError(Val(r.error))
        failures == OrZero(r.failures) + 1
        status == IF failures < maxFailures THEN "failed" ELSE "aborted"
        timeoutAt == now + retryIntervalMs IN
    /\ r.pc = "updateStatus"
    /\ store' = updateStatus(store, r.workflowId, status, timeoutAt, failures, lastError)
    /\ runs' = [runs EXCEPT ![e] = Free]
    /\ UNCHANGED <<poller, rejected, crashes, waiter>>

\* RunSetAsFinished, but the status is written with updateStatus.
RunSetAsFinishedByUpdateStatus(e) ==
    LET r == runs[e] IN
    /\ r.pc = "setAsFinished"
    /\ store' = updateStatus(store, r.workflowId, "finished", now, OrZero(r.failures), "")
    /\ runs' = [runs EXCEPT ![e] = Free]
    /\ UNCHANGED <<poller, rejected, crashes, waiter>>

\* makeRun, after the handler has returned: the workflow is set as finished.
RunSetAsFinished(e) ==
    LET r == runs[e] IN
    /\ r.pc = "setAsFinished"
    /\ store' = setAsFinished(store, r.workflowId)
    /\ runs' = [runs EXCEPT ![e] = Free]
    /\ UNCHANGED <<poller, rejected, crashes, waiter>>

\* SleepFindWakeUpAt, but a recorded nap that has not passed is slept in full.
SleepFindWakeUpAtFullDelay(e) ==
    LET r == runs[e]
        wakeUpAt == findWakeUpAt(store, r.workflowId, Instr(r).id)
        remainingMs == Val(wakeUpAt) - now IN
    /\ r.pc = "findWakeUpAt"
    /\ runs' = [runs EXCEPT ![e] =
            IF wakeUpAt # Undefined
            THEN IF remainingMs > 0
                 THEN [r EXCEPT !.pc = "goSleep", !.wakeAt = now + Instr(r).ms]
                 ELSE Continue(r, r.ip + 1)
            ELSE [r EXCEPT !.pc = "updateWakeUpAt"]]
    /\ UNCHANGED <<store, poller, rejected, crashes, waiter>>

\* makeMakeSleep, the lookup: a recorded nap is waited out, or has passed; with
\* none, sleep goes on to record one.
SleepFindWakeUpAt(e) ==
    LET r == runs[e]
        wakeUpAt == findWakeUpAt(store, r.workflowId, Instr(r).id)
        remainingMs == Val(wakeUpAt) - now IN
    /\ r.pc = "findWakeUpAt"
    /\ runs' = [runs EXCEPT ![e] =
            IF wakeUpAt # Undefined
            THEN IF remainingMs > 0
                 THEN [r EXCEPT !.pc = "goSleep", !.wakeAt = now + remainingMs]
                 ELSE Continue(r, r.ip + 1)
            ELSE [r EXCEPT !.pc = "updateWakeUpAt"]]
    /\ UNCHANGED <<store, poller, rejected, crashes, waiter>>

\* SleepUpdateWakeUpAt, but the timeout does not cover the nap.
SleepUpdateWakeUpAtShortLease(e) ==
    LET r == runs[e]
        wakeUpAt == now + Instr(r).ms
        timeoutAt == now + timeoutIntervalMs IN
    /\ r.pc = "updateWakeUpAt"
    /\ store' = updateWakeUpAt(store, r.workflowId, Instr(r).id, wakeUpAt, timeoutAt)
    /\ runs' = [runs EXCEPT ![e] = [r EXCEPT !.pc = "goSleep", !.wakeAt = now + Instr(r).ms]]
    /\ UNCHANGED <<poller, rejected, crashes, waiter>>

\* makeMakeSleep, the record: the nap is stored, then the delay starts.
SleepUpdateWakeUpAt(e) ==
    LET r == runs[e]
        wakeUpAt == now + Instr(r).ms
        timeoutAt == wakeUpAt + timeoutIntervalMs IN
    /\ r.pc = "updateWakeUpAt"
    /\ store' = updateWakeUpAt(store, r.workflowId, Instr(r).id, wakeUpAt, timeoutAt)
    /\ runs' = [runs EXCEPT ![e] = [r EXCEPT !.pc = "goSleep", !.wakeAt = now + Instr(r).ms]]
    /\ UNCHANGED <<poller, rejected, crashes, waiter>>

\* goSleep resolves: its timer has fired, and sleep returns.
SleepWake(e) ==
    LET r == runs[e] IN
    /\ r.pc = "goSleep"
    /\ r.wakeAt <= now
    /\ runs' = [runs EXCEPT ![e] = Continue(r, r.ip + 1)]
    /\ UNCHANGED <<store, poller, rejected, crashes, waiter>>

\* ctx.start: the same start as the client's.
CtxStart(e) ==
    LET r == runs[e]
        res == makeStart(store, Instr(r).id, Instr(r).handler, Instr(r).input) IN
    /\ r.pc = "insert"
    /\ store' = res[1]
    /\ runs' = [runs EXCEPT ![e] = Continue([r EXCEPT !.ret = Def(res[2])], r.ip + 1)]
    /\ UNCHANGED <<poller, rejected, crashes, waiter>>

\* The error that a persistence call rejects with when the store fails.
StoreError == Error("store error")

\* The persistence calls that step, sleep and start make inside the handler.
HandlerCalls == {"findOutput", "updateOutput", "findWakeUpAt", "updateWakeUpAt", "insert"}

\* RunStoreError, but setAsFinished is awaited inside the try block: its
\* rejection is caught like an error of the handler.
RunStoreErrorCatchesSetAsFinished(e) ==
    LET r == runs[e] IN
    /\ r.pc \in HandlerCalls \cup {"findRunData", "updateStatus", "setAsFinished"}
    /\ IF r.pc \in HandlerCalls \cup {"setAsFinished"}
       THEN /\ runs' = [runs EXCEPT ![e] = [r EXCEPT !.pc = "updateStatus",
                                                     !.error = Def(StoreError)]]
            /\ rejected' = rejected
       ELSE /\ runs' = [runs EXCEPT ![e] = Free]
            /\ rejected' = rejected \cup {StoreError.value}
    /\ UNCHANGED <<store, poller, crashes, waiter>>

\* The persistence call that the run in slot e awaits rejects, with no effect
\* on the store.  Inside the handler the rejection propagates out of step,
\* sleep or start and out of the handler, into the catch block of run, which
\* goes on to updateStatus; findRunData, updateStatus and setAsFinished are
\* awaited outside the try block, and run rejects.
RunStoreError(e) ==
    LET r == runs[e] IN
    /\ r.pc \in HandlerCalls \cup {"findRunData", "updateStatus", "setAsFinished"}
    /\ IF r.pc \in HandlerCalls
       THEN /\ runs' = [runs EXCEPT ![e] = [r EXCEPT !.pc = "updateStatus",
                                                     !.error = Def(StoreError)]]
            /\ rejected' = rejected
       ELSE /\ runs' = [runs EXCEPT ![e] = Free]
            /\ rejected' = rejected \cup {StoreError.value}
    /\ UNCHANGED <<store, poller, crashes, waiter>>

\* makeRun rejects before the handler is invoked, and nothing handles the
\* rejection: poll does not await run nor attach a handler to its promise.
\* What an unhandled rejection does is up to the runtime; where it ends the
\* process, the poll loop and the runs of the worker are gone with it.  (Where
\* it does not, the run ends as in RunFindRunData.)
RunRejectionUnhandled(e) ==
    LET r == runs[e]
        runData == findRunData(store, r.workflowId) IN
    /\ r.pc = "findRunData"
    /\ \/ /\ runData = Undefined
          /\ rejected' = rejected \cup {"workflow not found: " \o r.workflowId}
       \/ /\ runData # Undefined
          /\ Val(runData).handler \notin DOMAIN handlers
          /\ rejected' = rejected \cup {"handler not found: " \o Val(runData).handler}
    /\ poller' = [poller EXCEPT ![r.worker] = [pc |-> "off", wakeAt |-> now]]
    /\ runs' = [f \in Slots |->
            IF runs[f].pc # "free" /\ runs[f].worker = r.worker THEN Free ELSE runs[f]]
    /\ UNCHANGED <<store, crashes, waiter>>

----------------------------------------------------------------------------
(* Worker code: the poll loop *)

Off == [pc |-> "off", wakeAt |-> now]

\* LoopTop, but the answer of shouldStop() is not looked at.
LoopTopIgnoresStop(stop) == [pc |-> "claim", wakeAt |-> now]

\* The top of the loop: shouldStop() answers stop.
LoopTop(stop) ==
    IF stop THEN [pc |-> "returned", wakeAt |-> now] ELSE [pc |-> "claim", wakeAt |-> now]

\* poll(shouldStop) is called.
PollStart(w, stop) ==
    /\ poller[w].pc = "off"
    /\ poller' = [poller EXCEPT ![w] = LoopTop(stop)]
    /\ UNCHANGED <<store, runs, rejected, crashes, waiter>>

\* PollClaimSome, but the loop sleeps for the poll interval after a claim.
PollClaimSomeThenSleeps(w, id, stop) ==
    LET timeoutAt == now + timeoutIntervalMs IN
    /\ poller[w].pc = "claim"
    /\ id \in Ready(store, now)
    /\ \E e \in Slots : runs[e].pc = "free"
    /\ store' = claim(store, id, timeoutAt)
    /\ runs' = [runs EXCEPT ![FreeSlot] = NewRun(w, id)]
    /\ poller' = [poller EXCEPT ![w] = [pc |-> "goSleep", wakeAt |-> now + pollIntervalMs]]
    /\ UNCHANGED <<rejected, crashes, waiter>>

\* makeClaim answers a workflow id: it is run without awaiting, and the loop
\* goes to its top.
PollClaimSome(w, id, stop) ==
    LET timeoutAt == now + timeoutIntervalMs IN
    /\ poller[w].pc = "claim"
    /\ id \in Ready(store, now)
    /\ \E e \in Slots : runs[e].pc = "free"
    /\ store' = claim(store, id, timeoutAt)
    /\ runs' = [runs EXCEPT ![FreeSlot] = NewRun(w, id)]
    /\ poller' = [poller EXCEPT ![w] = LoopTop(stop)]
    /\ UNCHANGED <<rejected, crashes, waiter>>

\* makeClaim answers undefined: the loop sleeps for the poll interval.
PollClaimNone(w) ==
    /\ poller[w].pc = "claim"
    /\ Ready(store, now) = {}
    /\ poller' = [poller EXCEPT ![w] = [pc |-> "goSleep", wakeAt |-> now + pollIntervalMs]]
    /\ UNCHANGED <<store, runs, rejected, crashes, waiter>>

\* goSleep resolves in the loop, which goes to its top.
PollWake(w, stop) ==
    /\ poller[w].pc = "goSleep"
    /\ poller[w].wakeAt <= now
    /\ poller' = [poller EXCEPT ![w] = LoopTop(stop)]
    /\ UNCHANGED <<store, runs, rejected, crashes, waiter>>

----------------------------------------------------------------------------
(* The environment: time and crashes *)

\* One tick passes: every held instant comes one tick closer.
Tick ==
    /\ store' = [id \in DOMAIN store |->
            [store[id] EXCEPT !.timeoutAt = LaterOpt(@),
                              !.naps = [n \in DOMAIN @ |-> Later(@[n])]]]
    /\ runs' = [e \in Slots |->
            IF runs[e].pc = "free" THEN Free ELSE [runs[e] EXCEPT !.wakeAt = TimerLater(@)]]
    /\ poller' = [w \in Workers |-> [poller[w] EXCEPT !.wakeAt = TimerLater(@)]]
    /\ waiter' = [waiter EXCEPT !.wakeAt = TimerLater(@)]
    /\ UNCHANGED <<rejected, crashes>>

\* The process of worker w dies: its poll loop and its runs are gone.  It is
\* started again by PollStart.
Crash(w) ==
    /\ crashes < MaxCrashes
    /\ poller[w].pc # "off"
    /\ crashes' = crashes + 1
    /\ poller' = [poller EXCEPT ![w] = Off]
    /\ runs' = [e \in Slots |->
            IF runs[e].pc # "free" /\ runs[e].worker = w THEN Free ELSE runs[e]]
    /\ UNCHANGED <<store, rejected, waiter>>

\* The store loses the record of workflow id, removed from outside between
\* the claim that answered id and the findRunData of the run it started.  A
\* workflow is lost once: not again after a run has rejected for it.
Lose(id) ==
    /\ id \in DOMAIN store
    /\ \E e \in Slots : runs[e].pc = "findRunData" /\ runs[e].workflowId = id
    /\ ("workflow not found: " \o id) \notin rejected
    /\ store' = [x \in DOMAIN store \ {id} |-> store[x]]
    /\ UNCHANGED <<runs, poller, rejected, crashes, waiter>>

----------------------------------------------------------------------------
(* The system *)

\* What the clients start: workflow W, with any registered handler.  Workflow
\* V is the one that handler spawn starts.
Inputs == {1}

Init ==
    /\ store = EmptyMap
    /\ runs = [e \in Slots |-> Free]
    /\ poller = [w \in Workers |-> Off]
    /\ rejected = {}
    /\ crashes = 0
    /\ waiter = NoWait

\* Every call a run invocation awaits, taking effect for the run in slot e.
RunStep(e) ==
    \/ RunFindRunData(e)
    \/ StepFindOutput(e)
    \/ \E output \in Outputs : StepFnReturn(e, output)
    \/ \E error \in Errors : StepFnThrow(e, error)
    \/ StepUpdateOutput(e)
    \/ SleepFindWakeUpAt(e)
    \/ SleepUpdateWakeUpAt(e)
    \/ SleepWake(e)
    \/ CtxStart(e)
    \/ RunUpdateStatus(e)
    \/ RunSetAsFinished(e)

\* A step of the poll loop of worker w, where shouldStop() answers stop.
PollStep(w, stop) ==
    \/ PollStart(w, stop)
    \/ \E id \in WorkflowIds : PollClaimSome(w, id, stop)
    \/ PollClaimNone(w)
    \/ PollWake(w, stop)

Next ==
    \/ \E id \in {"W"}, handler \in DOMAIN handlers, input \in Inputs :
            Start(id, handler, input)
    \/ \E w \in Workers, stop \in BOOLEAN : PollStep(w, stop)
    \/ \E e \in Slots : RunStep(e)
    \/ Tick
    \/ \E w \in Workers : Crash(w)

Spec == Init /\ [][Next]_vars

\* The system under fair scheduling: worker w1 is the one worker that polls
\* forever (its shouldStop never answers true, and it is started again after a
\* crash), time passes, and every awaited call, fn and timer of a run in
\* flight completes.  The other worker is never started here.
FairNext ==
    \/ \E id \in {"W"}, handler \in DOMAIN handlers, input \in Inputs :
            Start(id, handler, input)
    \/ PollStep("w1", FALSE)
    \/ \E e \in Slots : RunStep(e)
    \/ Tick
    \/ Crash("w1")

Fairness ==
    /\ WF_vars(Tick)
    /\ WF_vars(PollStep("w1", FALSE))
    /\ \A e \in Slots : WF_vars(RunStep(e))

FairSpec == Init /\ [][FairNext]_vars /\ Fairness

\* The system with no crash and no lease expiry, under fair scheduling: time
\* does not pass the timeout of a running workflow, so every execution ends
\* within its lease; worker w1 polls forever.
CalmTick ==
    /\ \A id \in DOMAIN store :
            store[id].status = "running" => Val(store[id].timeoutAt) > now
    /\ Tick

CalmNext ==
    \/ \E id \in {"W"}, handler \in DOMAIN handlers, input \in Inputs :
            Start(id, handler, input)
    \/ PollStep("w1", FALSE)
    \/ \E w \in Workers \ {"w1"}, stop \in BOOLEAN : PollStep(w, stop)
    \/ \E e \in Slots : RunStep(e)
    \/ CalmTick

CalmFairness ==
    /\ WF_vars(CalmTick)
    /\ WF_vars(PollStep("w1", FALSE))
    /\ \A e \in Slots : WF_vars(RunStep(e))

CalmSpec == Init /\ [][CalmNext]_vars /\ CalmFairness

\* The system with a client that waits: worker w1 polls, no worker crashes and
\* no lease expires, and the client calls wait once, at any moment, for
\* workflow W, which exists from the moment it is started.
StatusSets == {{}, {"running"}, {"finished", "aborted"}}

WaitMs == {1, 2}

WaitNext ==
    \/ \E id \in {"W"}, handler \in DOMAIN handlers, input \in Inputs :
            Start(id, handler, input)
    \/ PollStep("w1", FALSE)
    \/ \E e \in Slots : RunStep(e)
    \/ CalmTick
    \/ \E workflowId \in {"W"}, status \in StatusSets, times \in 0..MaxTimes, ms \in WaitMs :
            Wait(workflowId, status, times, ms)
    \/ WaitFindStatus
    \/ WaitWake

WaitSpec == Init /\ [][WaitNext]_vars

\* The loop of worker w comes to its top and shouldStop() answers true.
StopTop(w) ==
    \/ PollStart(w, TRUE)
    \/ \E id \in WorkflowIds : PollClaimSome(w, id, TRUE)
    \/ PollWake(w, TRUE)

\* The system with a worker that is asked to stop: worker w1 polls and does
\* not crash, every awaited call and timer completes, and shouldStop() answers
\* true in the end: it does not answer false for ever at the loop's top.
StopNext ==
    \/ \E id \in {"W"}, handler \in DOMAIN handlers, input \in Inputs :
            Start(id, handler, input)
    \/ \E stop \in BOOLEAN : PollStep("w1", stop)
    \/ \E e \in Slots : RunStep(e)
    \/ Tick

StopFairness ==
    /\ WF_vars(Tick)
    /\ WF_vars(\E stop \in BOOLEAN : PollStep("w1", stop))
    /\ SF_vars(StopTop("w1"))
    /\ \A e \in Slots : WF_vars(RunStep(e))

StopSpec == Init /\ [][StopNext]_vars /\ StopFairness

\* The system with a store that may fail: worker w1 polls and does not crash,
\* and any persistence call that a run awaits may reject.
StoreErrorNext ==
    \/ \E id \in {"W"}, handler \in DOMAIN handlers, input \in Inputs :
            Start(id, handler, input)
    \/ PollStep("w1", FALSE)
    \/ \E e \in Slots : RunStep(e)
    \/ \E e \in Slots : RunStoreError(e)
    \/ Tick

StoreErrorSpec == Init /\ [][StoreErrorNext]_vars

\* The system with a store that may lose a workflow record: worker w1 polls
\* and does not crash, and the client starts nothing after a loss.
LostNext ==
    \/ \E id \in {"W"}, handler \in DOMAIN handlers, input \in Inputs :
            /\ \A e \in InFlight : runs[e].workflowId \in DOMAIN store
            /\ \A lost \in WorkflowIds : ("workflow not found: " \o lost) \notin rejected
            /\ Start(id, handler, input)
    \/ PollStep("w1", FALSE)
    \/ \E e \in Slots : RunStep(e)
    \/ Tick
    \/ \E id \in WorkflowIds : Lose(id)

LostSpec == Init /\ [][LostNext]_vars

\* A handler name that no worker has registered.
Unregistered == "ghost"

\* The system with a client that may name a handler that is not registered:
\* worker w1 polls forever and is started again when its process has ended,
\* time passes, and every awaited call and timer completes.
GhostNext ==
    \/ \E id \in {"W"}, handler \in DOMAIN handlers \cup {Unregistered}, input \in Inputs :
            Start(id, handler, input)
    \/ PollStep("w1", FALSE)
    \/ \E e \in Slots : RunStep(e)
    \/ \E e \in Slots : RunRejectionUnhandled(e)
    \/ Tick

GhostFairness ==
    /\ WF_vars(Tick)
    /\ WF_vars(PollStep("w1", FALSE))
    /\ \A e \in Slots : WF_vars(RunStep(e))

GhostSpec == Init /\ [][GhostNext]_vars /\ GhostFairness

----------------------------------------------------------------------------
(* What a step of the system did, read off the two states of the step *)

Terminal == {"finished", "aborted"}

\* The run in slot e is awaiting the call (or fn, or goSleep) named pc.
At(e, pc) == runs[e].pc = pc

\* The call that the run in slot e awaits took effect in this step.
Stepped(e) ==
    /\ runs[e].pc # "free"
    /\ crashes' = crashes
    /\ \/ runs'[e].pc = "free"
       \/ runs'[e].pc # runs[e].pc
       \/ runs'[e].ip # runs[e].ip

\* poll spawned a run in slot e in this step: claim answered its workflow id.
Spawned(e) == runs[e].pc = "free" /\ runs'[e].pc = "findRunData"

\* The handler of the run in slot e is executing: invoked and not yet returned or thrown.
Executing(e) ==
    runs[e].pc \in {"findOutput", "fn", "updateOutput", "findWakeUpAt",
                    "updateWakeUpAt", "goSleep", "insert"}

\* The workers executing the handler of workflow id.
Executors(id) == {runs[e].worker : e \in {f \in InFlight : runs[f].workflowId = id /\ Executing(f)}}

LeaseHeld(id) ==
    /\ store[id].status = "running"
    /\ store[id].timeoutAt # Undefined
    /\ Val(store[id].timeoutAt) >= now

----------------------------------------------------------------------------
(* C1..C10 *)

\* C1: a step record, once written, is never written again, never changes its
\* value and never disappears, whichever executions and workers write.
C1_StepRecordWrittenOnce ==
    [][ /\ \A id \in DOMAIN store : \A s \in DOMAIN store[id].steps :
            /\ s \in DOMAIN store'[id].steps
            /\ store'[id].steps[s] = store[id].steps[s]
        /\ \A e \in Slots : (At(e, "updateOutput") /\ Stepped(e)) =>
            Instr(runs[e]).id \notin DOMAIN store[runs[e].workflowId].steps ]_vars

\* C2 as claimed: while a workflow is running under an unexpired lease, at most
\* one worker is executing its handler.
C2_OneExecutorUnderLease ==
    \A id \in DOMAIN store : LeaseHeld(id) => Cardinality(Executors(id)) <= 1

\* C2 as amended: claim hands a workflow to a worker only when it is idle, or
\* running or failed with its timeout passed, and grants a lease of one timeout
\* interval: under an unexpired lease no second execution is started.
C2_ClaimOnlyWithoutLease ==
    [][ \A e \in Slots : Spawned(e) =>
            LET id == runs'[e].workflowId IN
            /\ id \in DOMAIN store
            /\ ~LeaseHeld(id)
            /\ \/ store[id].status = "idle"
               \/ /\ store[id].status \in {"running", "failed"}
                  /\ Val(store[id].timeoutAt) < now
            /\ store'[id].status = "running"
            /\ store'[id].timeoutAt = Def(now + timeoutIntervalMs) ]_vars

\* C2 witness: a second worker was handed the workflow after the lease of the
\* first had expired, and both are executing its handler under the new lease.
C2_Witness ==
    \E id \in DOMAIN store : LeaseHeld(id) /\ Cardinality(Executors(id)) = 2

\* C3: a workflow whose status is finished or aborted keeps that status.
C3_TerminalStatusStays ==
    [][ \A id \in DOMAIN store :
            store[id].status \in Terminal => store'[id].status = store[id].status ]_vars

\* The output the store holds for the step that the run in slot e is in.
Recorded(e) == findOutput(store, runs[e].workflowId, Instr(runs[e]).id)

\* The store holds a record for the step that the run in slot e is in.
HasRecord(e) ==
    /\ runs[e].workflowId \in DOMAIN store
    /\ Instr(runs[e]).id \in DOMAIN store[runs[e].workflowId].steps

\* C5: step, called when an output is recorded, returns that output, does not
\* invoke fn and writes nothing: the store is left as it was.
C5_RecordedStepReturnsOutput ==
    [][ \A e \in Slots :
            (At(e, "findOutput") /\ Stepped(e) /\ Recorded(e) # Undefined) =>
                /\ store' = store
                /\ runs'[e].ret = Recorded(e)
                /\ runs'[e].invoked = runs[e].invoked
                /\ runs'[e].ip = runs[e].ip + 1
                /\ runs'[e].pc \notin {"fn", "updateOutput", "free"} ]_vars

\* C5 witness: an execution of h is past step a with its recorded output 10
\* and has invoked no fn.
C5_Witness ==
    \E e \in InFlight :
        /\ runs[e].handler = Def("h")
        /\ runs[e].ip = 2
        /\ runs[e].ret = Def(10)
        /\ runs[e].invoked = <<>>
        /\ store[runs[e].workflowId].steps["a"] = Def(10)

\* C6: once a step record exists, whatever value fn produced for it, a later
\* step call for it does not invoke fn.
C6_RecordedStepNeverInvokesFn ==
    [][ \A e \in Slots :
            (At(e, "findOutput") /\ Stepped(e) /\ HasRecord(e)) =>
                /\ runs'[e].pc # "fn"
                /\ runs'[e].invoked = runs[e].invoked ]_vars

\* C7: step, called when no output is recorded, invokes fn once; only when fn
\* has returned is updateOutput called, with the value fn returned and
\* timeoutAt = now + timeoutInterval, and step returns that value.  A step
\* record is written by nothing else.
C7_UnrecordedStepRunsFnThenRecords ==
    [][ /\ \A e \in Slots :
            (At(e, "findOutput") /\ Stepped(e) /\ Recorded(e) = Undefined) =>
                /\ store' = store
                /\ runs'[e].pc = "fn"
                /\ runs'[e].invoked = Append(runs[e].invoked, Instr(runs[e]).id)
        /\ \A e \in Slots :
            (At(e, "fn") /\ Stepped(e)) =>
                /\ store' = store
                /\ runs'[e].invoked = runs[e].invoked
                /\ \/ /\ runs'[e].pc = "updateOutput"
                      /\ runs'[e].out \in Instr(runs[e]).outs
                   \/ runs'[e].pc = "updateStatus"
        /\ \A e \in Slots :
            (At(e, "updateOutput") /\ Stepped(e)) =>
                LET id == runs[e].workflowId IN
                /\ store'[id].steps =
                        Put(store[id].steps, Instr(runs[e]).id, runs[e].out)
                /\ store'[id].timeoutAt = Def(now + timeoutIntervalMs)
                /\ runs'[e].ret = runs[e].out
                /\ runs'[e].invoked = runs[e].invoked
                /\ runs'[e].ip = runs[e].ip + 1
        /\ \A id \in DOMAIN store :
            store'[id].steps # store[id].steps =>
                \E e \in Slots :
                    /\ At(e, "updateOutput") /\ Stepped(e)
                    /\ runs[e].workflowId = id
                    /\ runs[e].invoked # <<>>
                    /\ runs[e].invoked[Len(runs[e].invoked)] = Instr(runs[e]).id ]_vars

\* C7 witness: an execution of h has invoked the fn of step a once, recorded
\* its output 10 with a fresh timeout, and step has returned 10.
C7_Witness ==
    \E e \in InFlight :
        /\ runs[e].handler = Def("h")
        /\ runs[e].ip = 2
        /\ runs[e].ret = Def(10)
        /\ runs[e].invoked = <<"a">>
        /\ store[runs[e].workflowId].steps = [x \in {"a"} |-> Def(10)]
        /\ store[runs[e].workflowId].timeoutAt = Def(now + timeoutIntervalMs)

\* C8: when fn fails inside step, the failure leaves step and reaches the catch
\* block of run, updateOutput is not called and no record is created for the
\* step by that execution; an execution that finds no record invokes fn again.
C8_FailedFnLeavesNoRecord ==
    [][ \A e \in Slots :
            /\ (At(e, "fn") /\ Stepped(e) /\ runs'[e].pc # "updateOutput") =>
                    /\ runs'[e].pc = "updateStatus"
                    /\ runs'[e].error # Undefined
                    /\ Val(runs'[e].error) \in Instr(runs[e]).throws
                    /\ runs'[e].ip = runs[e].ip
                    /\ store' = store
            /\ (At(e, "updateStatus") /\ Stepped(e)) =>
                    /\ runs'[e] = Free
                    /\ store'[runs[e].workflowId].steps = store[runs[e].workflowId].steps
            /\ (At(e, "findOutput") /\ Stepped(e) /\ ~HasRecord(e)) =>
                    runs'[e].pc = "fn" ]_vars

\* C8 witness: the fn of step s has failed in one execution, which recorded the
\* failure and no output, and the next execution has invoked fn again.
C8_Witness ==
    \E e \in InFlight :
        /\ runs[e].handler = Def("flaky")
        /\ runs[e].pc = "fn"
        /\ store[runs[e].workflowId].failures = Def(1)
        /\ store[runs[e].workflowId].lastError = Def("\"kapot\"")
        /\ store[runs[e].workflowId].steps = EmptyMap

\* The handlers made of deterministic steps: each fn has one outcome.
Deterministic(handler) ==
    \A i \in 1..Len(handlers[handler]) :
        handlers[handler][i].op = "step" =>
            /\ Cardinality(handlers[handler][i].outs) = 1
            /\ handlers[handler][i].throws = {}

\* The step records an uninterrupted execution of the handler leaves.
Outcome(handler) ==
    LET steps == {i \in 1..Len(handlers[handler]) : handlers[handler][i].op = "step"} IN
    [id \in {handlers[handler][i].id : i \in steps} |->
        CHOOSE v \in UNION {handlers[handler][i].outs : i \in {j \in steps : handlers[handler][j].id = id}} : TRUE]

\* C9: for a handler of deterministic steps, however its executions were
\* interrupted and resumed, a finished workflow holds the step outputs of an
\* uninterrupted execution and no failure, and a resumed execution does not
\* invoke the fn of a step that was recorded before.
C9_ResumedEqualsUninterrupted ==
    /\ [](\A id \in DOMAIN store :
            (Deterministic(store[id].handler) /\ store[id].status = "finished") =>
                /\ store[id].steps = Outcome(store[id].handler)
                /\ store[id].failures = Undefined)
    /\ [][ \A e \in Slots :
            (/\ At(e, "findOutput") /\ Stepped(e)
             /\ Deterministic(Val(runs[e].handler))
             /\ HasRecord(e)) =>
                /\ runs'[e].invoked = runs[e].invoked
                /\ runs'[e].ret = Outcome(Val(runs[e].handler))[Instr(runs[e]).id] ]_vars

\* C10: when the handler fails, run makes one updateStatus call, with failures
\* one more than it loaded (or 1), status failed below maxFailures and aborted
\* otherwise, timeoutAt = now + retryInterval and the text of the error, and
\* then returns: it does not reject and does not set the workflow as finished.
C10_FailureIsRecordedOnce ==
    [][ \A e \in Slots :
            (At(e, "updateStatus") /\ Stepped(e)) =>
                LET id == runs[e].workflowId
                    loaded == IF runs[e].failures = Undefined THEN 0 ELSE Val(runs[e].failures)
                    thrown == Val(runs[e].error) IN
                /\ store'[id].failures = Def(loaded + 1)
                /\ store'[id].status = IF loaded + 1 < maxFailures THEN "failed" ELSE "aborted"
                /\ store'[id].timeoutAt = Def(now + retryIntervalMs)
                /\ store'[id].lastError =
                        Def(IF thrown.isError THEN thrown.value ELSE "\"" \o thrown.value \o "\"")
                /\ \A other \in DOMAIN store \ {id} : store'[other] = store[other]
                /\ store'[id].steps = store[id].steps /\ store'[id].naps = store[id].naps
                /\ runs'[e] = Free
                /\ rejected' = rejected ]_vars

\* C10 witness: the second failing execution of boom has recorded failures 2,
\* status aborted, the retry timeout and the error text, and its run is over.
C10_Witness ==
    \E id \in DOMAIN store :
        /\ store[id].handler = "boom"
        /\ store[id].status = "aborted"
        /\ store[id].failures = Def(maxFailures)
        /\ store[id].timeoutAt = Def(now + retryIntervalMs)
        /\ store[id].lastError = Def("boom")
        /\ InFlight = {}

----------------------------------------------------------------------------
(* C11..C20 *)

\* C11: run invokes the handler once, with the handler name and the input
\* recorded for the workflow; when the handler has returned it makes one
\* setAsFinished call, which changes the status alone, makes no updateStatus
\* call, and returns without rejecting.
C11_SuccessfulRunFinishesOnce ==
    [][ \A e \in Slots :
            /\ (At(e, "findRunData") /\ Stepped(e) /\ runs'[e].pc # "free") =>
                    /\ runs[e].ip = 0 /\ runs'[e].ip = 1
                    /\ runs'[e].handler = Def(store[runs[e].workflowId].handler)
                    /\ runs'[e].input = Def(store[runs[e].workflowId].input)
            /\ (runs[e].pc \notin {"free", "findRunData"} /\ runs'[e].pc # "free") =>
                    /\ runs'[e].ip >= runs[e].ip
                    /\ runs'[e].ip >= 1
                    /\ runs'[e].input = runs[e].input
                    /\ runs'[e].handler = runs[e].handler
            /\ (runs'[e].pc = "setAsFinished" /\ runs[e].pc # "setAsFinished") =>
                    /\ runs'[e].ip = Len(Program(runs'[e])) + 1
                    /\ runs'[e].error = Undefined
            /\ (At(e, "setAsFinished") /\ Stepped(e)) =>
                    LET id == runs[e].workflowId IN
                    /\ store' = [store EXCEPT ![id].status = "finished"]
                    /\ runs'[e] = Free
                    /\ rejected' = rejected ]_vars

\* C11 witness: the one execution of h, started with input 1, has returned
\* and the workflow is finished, with no failure recorded.
C11_Witness ==
    /\ "W" \in DOMAIN store
    /\ store["W"].handler = "h"
    /\ store["W"].input = 1
    /\ store["W"].status = "finished"
    /\ store["W"].failures = Undefined
    /\ store["W"].steps = [x \in {"a", "b"} |-> IF x = "a" THEN Def(10) ELSE Def(20)]
    /\ InFlight = {}

\* The executions of workflow id in flight.
RunsOf(id) == {e \in InFlight : runs[e].workflowId = id}

\* C12: with no crash and no lease expiry, a workflow whose handler always
\* throws is executed one run at a time; its k-th failed run records failures
\* k, with status failed for k < maxFailures and aborted for k = maxFailures;
\* it is aborted in the end, and once aborted it is not run again.
C12_AlwaysThrowingRunsMaxFailuresTimes ==
    /\ [](\A id \in DOMAIN store : store[id].handler = "boom" =>
            LET k == IF store[id].failures = Undefined THEN 0 ELSE Val(store[id].failures) IN
            /\ Cardinality(RunsOf(id)) = IF store[id].status = "running" THEN 1 ELSE 0
            /\ store[id].status = "idle" => k = 0
            /\ store[id].status = "running" => k < maxFailures
            /\ store[id].status = "failed" => (1 <= k /\ k < maxFailures)
            /\ store[id].status = "aborted" => k = maxFailures
            /\ store[id].status # "finished")
    /\ [][ \A e \in Slots :
            /\ (At(e, "updateStatus") /\ Stepped(e) /\ runs[e].handler = Def("boom")) =>
                    LET id == runs[e].workflowId
                        k == IF store[id].failures = Undefined
                             THEN 1 ELSE Val(store[id].failures) + 1 IN
                    /\ store'[id].failures = Def(k)
                    /\ store'[id].status = IF k < maxFailures THEN "failed" ELSE "aborted"
            /\ Spawned(e) => store[runs'[e].workflowId].status # "aborted" ]_vars
    /\ \A id \in WorkflowIds :
            (id \in DOMAIN store /\ store[id].handler = "boom")
                ~> (/\ id \in DOMAIN store
                    /\ store[id].status = "aborted"
                    /\ store[id].failures = Def(maxFailures))

\* C12 witness: boom has failed once and is failed with failures 1, and later
\* it is being run for the second time.
C12_Witness ==
    \E e \in InFlight :
        /\ runs[e].handler = Def("boom")
        /\ runs[e].failures = Def(1)
        /\ runs[e].pc = "updateStatus"
        /\ store[runs[e].workflowId].status = "running"
        /\ store[runs[e].workflowId].failures = Def(1)
        /\ crashes = 0

\* C13: a workflow that has been aborted is never handed out by claim again,
\* whatever is written to it afterwards: claim is what sets a status to
\* running, so from the state in which it is aborted on, it is never running.
C13_AbortedNeverClaimedAgain ==
    \A id \in WorkflowIds :
        [](  (id \in DOMAIN store /\ store[id].status = "aborted")
          => [](id \in DOMAIN store /\ store[id].status # "running"))

\* The failures stored for workflow id in store s, none counting as 0.
Failures(s, id) == IF s[id].failures = Undefined THEN 0 ELSE Val(s[id].failures)

\* C14: the failures stored for a workflow never decrease, whichever
\* executions of the workflow write them.
C14_FailuresNeverDecrease ==
    [][ \A id \in DOMAIN store : Failures(store', id) >= Failures(store, id) ]_vars

\* C15: the failures stored never exceed maxFailures, an aborted workflow has
\* failures = maxFailures, and a run that raises failures to maxFailures
\* records aborted, never failed.
C15_FailuresBoundedAbortedAtMax ==
    /\ [](\A id \in DOMAIN store :
            /\ Failures(store, id) <= maxFailures
            /\ store[id].status = "aborted" => store[id].failures = Def(maxFailures)
            /\ store[id].status = "failed" => Failures(store, id) < maxFailures)
    /\ [][ \A e \in Slots :
            (/\ At(e, "updateStatus") /\ Stepped(e)
             /\ store'[runs[e].workflowId].failures = Def(maxFailures)) =>
                store'[runs[e].workflowId].status = "aborted" ]_vars

\* C16: setAsFinished is called at most once for a workflow: only setAsFinished
\* stores finished, so it is never called for a workflow stored as finished.
C16_SetAsFinishedOnce ==
    [][ \A e \in Slots :
            (At(e, "setAsFinished") /\ Stepped(e)) =>
                store[runs[e].workflowId].status # "finished" ]_vars

\* The wake-up time the store holds for the sleep that the run in slot e is in.
RecordedNap(e) == findWakeUpAt(store, runs[e].workflowId, Instr(runs[e]).id)

\* C17: sleep, called when no nap is recorded, writes nothing in the lookup,
\* then calls updateWakeUpAt with wakeUpAt = now + ms and timeoutAt = wakeUpAt
\* + timeoutInterval, and only when that write has taken effect starts the
\* delay of ms; nothing is written while the delay runs or when it ends, and a
\* nap record appears in no other step.
C17_UnrecordedSleepRecordsThenDelays ==
    [][ /\ \A e \in Slots :
            /\ (At(e, "findWakeUpAt") /\ Stepped(e) /\ RecordedNap(e) = Undefined) =>
                    /\ store' = store
                    /\ runs'[e].pc = "updateWakeUpAt"
                    /\ runs'[e].ip = runs[e].ip
            /\ (At(e, "updateWakeUpAt") /\ Stepped(e)) =>
                    LET id == runs[e].workflowId
                        ms == Instr(runs[e]).ms IN
                    /\ store' = [store EXCEPT
                            ![id].naps = Put(@, Instr(runs[e]).id, now + ms),
                            ![id].timeoutAt = Def(now + ms + timeoutIntervalMs)]
                    /\ runs'[e].pc = "goSleep"
                    /\ runs'[e].wakeAt = now + ms
                    /\ runs'[e].ip = runs[e].ip
            /\ (At(e, "goSleep") /\ Stepped(e)) =>
                    /\ store' = store
                    /\ runs[e].wakeAt <= now
                    /\ runs'[e].ip = runs[e].ip + 1
        /\ \A id \in DOMAIN store :
            DOMAIN store'[id].naps # DOMAIN store[id].naps =>
                \E e \in Slots :
                    /\ At(e, "updateWakeUpAt") /\ Stepped(e)
                    /\ runs[e].workflowId = id ]_vars

\* C17 witness: the first execution of nap has recorded wakeUpAt = now + 3 and
\* timeoutAt = now + 3 + timeoutInterval, and its delay of 3 has just started.
C17_Witness ==
    \E e \in InFlight :
        /\ runs[e].handler = Def("nap")
        /\ runs[e].pc = "goSleep"
        /\ runs[e].wakeAt = now + 3
        /\ store[runs[e].workflowId].naps = [x \in {"n"} |-> now + 3]
        /\ store[runs[e].workflowId].timeoutAt = Def(now + 3 + timeoutIntervalMs)

\* C18: sleep, called when a nap is recorded, writes nothing; when the
\* recorded wakeUpAt is after now it delays until wakeUpAt, whatever ms is,
\* and when wakeUpAt is not after now it returns without any delay.
C18_RecordedSleepWaitsRemainder ==
    [][ \A e \in Slots :
            (At(e, "findWakeUpAt") /\ Stepped(e) /\ RecordedNap(e) # Undefined) =>
                /\ store' = store
                /\ runs'[e].pc # "updateWakeUpAt"
                /\ IF Val(RecordedNap(e)) > now
                   THEN /\ runs'[e].pc = "goSleep"
                        /\ runs'[e].wakeAt = Val(RecordedNap(e))
                        /\ runs'[e].ip = runs[e].ip
                   ELSE /\ runs'[e].pc # "goSleep"
                        /\ runs'[e].ip = runs[e].ip + 1 ]_vars

\* C18 witness: two executions of nap wait for the one recorded nap; its
\* wakeUpAt is less than the 3 ticks of the sleep ahead, and the delay of each
\* ends at that wakeUpAt.
C18_Witness ==
    \E e, f \in InFlight :
        /\ e # f
        /\ runs[e].workflowId = runs[f].workflowId
        /\ runs[e].pc = "goSleep" /\ runs[f].pc = "goSleep"
        /\ store[runs[f].workflowId].naps["n"] \in {1, 2}
        /\ runs[e].wakeAt = store[runs[f].workflowId].naps["n"]
        /\ runs[f].wakeAt = store[runs[f].workflowId].naps["n"]

\* The run in slot e returns from sleep in this step.
SleepReturns(e) ==
    /\ runs[e].pc \in {"findWakeUpAt", "goSleep"}
    /\ Stepped(e)
    /\ runs'[e].pc # "free"
    /\ runs'[e].ip = runs[e].ip + 1

\* C19: a handler goes past sleep only when the recorded wakeUpAt has come,
\* the wakeUpAt recorded first is never replaced, and an execution starts the
\* full delay of ms only when no nap is recorded: every other execution waits
\* the remainder until the wakeUpAt recorded first.
C19_ReplayWaitsFirstWakeUpAt ==
    [][ /\ \A e \in Slots :
            /\ SleepReturns(e) =>
                    /\ RecordedNap(e) # Undefined
                    /\ Val(RecordedNap(e)) <= now
            /\ (At(e, "updateWakeUpAt") /\ Stepped(e)) => RecordedNap(e) = Undefined
        /\ \A id \in DOMAIN store : \A n \in DOMAIN store[id].naps :
            /\ n \in DOMAIN store'[id].naps
            /\ store'[id].naps[n] \in {store[id].naps[n], Later(store[id].naps[n])} ]_vars

\* Workflow id runs handler nap, its nap is recorded, its step is not, and
\* the worker that executed it has died: it is stored as running and no
\* execution of it is in flight.
NapOrphaned(id) ==
    /\ id \in DOMAIN store
    /\ store[id].handler = "nap"
    /\ store[id].status = "running"
    /\ "n" \in DOMAIN store[id].naps
    /\ "done" \notin DOMAIN store[id].steps
    /\ RunsOf(id) = {}

\* C20 as claimed: once the worker has died with the nap persisted, a poll
\* after wakeUpAt has passed claims the workflow: the workflow is ready to run
\* as soon as its wakeUpAt is before now.
C20_ClaimedOncePastWakeUp ==
    \A id \in DOMAIN store :
        (NapOrphaned(id) /\ store[id].naps["n"] < now) => id \in Ready(store, now)

\* C20 as amended: the nap was persisted with timeoutAt = wakeUpAt +
\* timeoutInterval, so the workflow is claimed again only when wakeUpAt +
\* timeoutInterval is before now; the execution that replays it returns from
\* sleep with no delay and goes on to the step, and under fair scheduling the
\* workflow finishes.
C20_ClaimedOncePastTimeout ==
    /\ [](\A id \in DOMAIN store :
            NapOrphaned(id) =>
                /\ store[id].naps["n"] >= now =>
                        store[id].timeoutAt = Def(store[id].naps["n"] + timeoutIntervalMs)
                /\ Val(store[id].timeoutAt) >= now => id \notin Ready(store, now))
    /\ [][ \A e \in Slots :
            /\ (Spawned(e) /\ NapOrphaned(runs'[e].workflowId)) =>
                    /\ Val(store[runs'[e].workflowId].timeoutAt) < now
                    /\ store[runs'[e].workflowId].naps["n"] < now
            /\ (/\ At(e, "findWakeUpAt") /\ Stepped(e)
                /\ RecordedNap(e) # Undefined /\ Val(RecordedNap(e)) < now) =>
                    /\ runs'[e].ip = runs[e].ip + 1
                    /\ runs'[e].pc = "findOutput"
                    /\ store' = store ]_vars
    /\ \A id \in WorkflowIds :
            NapOrphaned(id) ~> (id \in DOMAIN store /\ store[id].status = "finished")

\* C20 witness: the worker died with the nap persisted, the workflow was
\* claimed again after its timeout, and the replay is past sleep, at the step,
\* having waited for nothing.
C20_Witness ==
    \E e \in InFlight :
        /\ crashes = 1
        /\ RunsOf(runs[e].workflowId) = {e}
        /\ runs[e].handler = Def("nap")
        /\ runs[e].ip = 2
        /\ runs[e].pc = "findOutput"
        /\ store[runs[e].workflowId].naps["n"] = Past
        /\ store[runs[e].workflowId].timeoutAt = Def(now + timeoutIntervalMs)

----------------------------------------------------------------------------
(* C21..C30 *)

\* C21: a nap record, once written, is never written again, its wakeUpAt
\* stays the same instant and it never disappears, whichever executions and
\* workers write.
C21_NapRecordWrittenOnce ==
    [][ /\ \A id \in DOMAIN store : \A n \in DOMAIN store[id].naps :
            /\ n \in DOMAIN store'[id].naps
            /\ \/ store'[id].naps[n] = store[id].naps[n]
               \/ /\ store'[id].naps[n] = Later(store[id].naps[n])
                  /\ \A e \in Slots : ~Stepped(e)
        /\ \A e \in Slots : (At(e, "updateWakeUpAt") /\ Stepped(e)) =>
            Instr(runs[e]).id \notin DOMAIN store[runs[e].workflowId].naps ]_vars

\* The record of a workflow that start has just created.
Created(handler, input) ==
    [handler |-> handler, input |-> input, status |-> "idle",
     timeoutAt |-> Undefined, failures |-> Undefined, lastError |-> Undefined,
     steps |-> EmptyMap, naps |-> EmptyMap]

\* C22: in every reachable store, start(id, handler, input) returns true
\* exactly when no workflow id exists, and then adds it as an idle workflow
\* with that handler and input and changes no other workflow; when id exists,
\* in whatever status, it returns false and the store is unchanged.  So it is
\* for the start of a handler's context, and no workflow record ever
\* disappears or changes its handler or input.
C22_StartCreatesOnce ==
    /\ [](\A id \in WorkflowIds, handler \in DOMAIN handlers, input \in {1, 2} :
            LET res == makeStart(store, id, handler, input) IN
            /\ res[2] = (id \notin DOMAIN store)
            /\ res[2] => /\ DOMAIN res[1] = DOMAIN store \cup {id}
                         /\ res[1][id] = Created(handler, input)
                         /\ \A other \in DOMAIN store : res[1][other] = store[other]
            /\ ~res[2] => res[1] = store)
    /\ [][ /\ \A e \in Slots : (At(e, "insert") /\ Stepped(e)) =>
                LET i == Instr(runs[e]) IN
                /\ runs'[e].ret = Def(i.id \notin DOMAIN store)
                /\ store' = IF i.id \in DOMAIN store
                            THEN store
                            ELSE Put(store, i.id, Created(i.handler, i.input))
           /\ \A id \in DOMAIN store :
                /\ id \in DOMAIN store'
                /\ store'[id].handler = store[id].handler
                /\ store'[id].input = store[id].input
           /\ \A id \in DOMAIN store' \ DOMAIN store :
                /\ store'[id].status = "idle"
                /\ store'[id].steps = EmptyMap /\ store'[id].naps = EmptyMap ]_vars

\* C22 witness: a replay of handler spawn has started V again, when V existed
\* and was finished: start returned false and V is still finished.
C22_Witness ==
    \E e \in InFlight :
        /\ runs[e].handler = Def("spawn")
        /\ runs[e].pc = "setAsFinished"
        /\ runs[e].ret = Def(FALSE)
        /\ "V" \in DOMAIN store
        /\ store["V"].status = "finished"
        /\ store["V"].steps = [x \in {"v"} |-> Undefined]

\* The answer o of a findStatus call is a status that the wait call awaits.
Matches(o) == o # Undefined /\ Val(o) \in waiter.status

\* The polls of the wait call that did not match.
Unmatched == {k \in 1..Len(waiter.found) : ~Matches(waiter.found[k])}

\* C23: wait calls findStatus at most times times, and polls again only after
\* a poll that did not match; when it has returned, it returned the answer of
\* its last poll if that matched (the first poll that did, a status among the
\* awaited ones) and undefined if no poll matched, as when the workflow does
\* not exist; with times = 0 it returns undefined at once, with no findStatus
\* call and no goSleep.
C23_WaitReturnsFirstMatch ==
    /\ Len(waiter.found) <= waiter.times
    /\ \A k \in 1..(Len(waiter.found) - 1) : ~Matches(waiter.found[k])
    /\ waiter.pc = "returned" =>
            /\ (waiter.ret # Undefined) => Val(waiter.ret) \in waiter.status
            /\ IF \E k \in 1..Len(waiter.found) : Matches(waiter.found[k])
               THEN waiter.ret = waiter.found[Len(waiter.found)]
               ELSE waiter.ret = Undefined
    /\ (waiter.pc # "off" /\ waiter.times = 0) =>
            /\ waiter.pc = "returned"
            /\ waiter.ret = Undefined
            /\ waiter.found = <<>>
            /\ waiter.delays = 0

\* C23 witness: wait returned finished at its third poll; the first poll found
\* no workflow and the second found it running.
C23_Witness ==
    /\ waiter.pc = "returned"
    /\ waiter.status = {"finished", "aborted"}
    /\ waiter.ret = Def("finished")
    /\ waiter.found = <<Undefined, Def("running"), Def("finished")>>

\* C24: wait has called goSleep once for every poll that did not match, for ms
\* each time and right after the poll, and never after a poll that matched: a
\* match at the k-th poll is returned after k findStatus calls and k - 1
\* delays, and undefined is returned after times findStatus calls and times
\* delays.
C24_WaitDelaysAfterEveryMiss ==
    /\ [](/\ waiter.delays = Cardinality(Unmatched)
          /\ (waiter.pc = "returned" /\ waiter.ret # Undefined) =>
                /\ Matches(waiter.found[Len(waiter.found)])
                /\ waiter.delays = Len(waiter.found) - 1
          /\ (waiter.pc = "returned" /\ waiter.ret = Undefined) =>
                /\ Len(waiter.found) = waiter.times
                /\ waiter.delays = waiter.times)
    /\ [][ /\ (waiter.pc = "findStatus" /\ waiter' # waiter) =>
                (/\ Len(waiter'.found) = Len(waiter.found) + 1
                 /\ Matches(findStatus(store, waiter.workflowId)) =>
                        (waiter'.pc = "returned" /\ waiter'.delays = waiter.delays)
                 /\ ~Matches(findStatus(store, waiter.workflowId)) =>
                        (/\ waiter'.pc = "goSleep"
                         /\ waiter'.wakeAt = now + waiter.ms
                         /\ waiter'.delays = waiter.delays + 1))
           /\ (waiter.pc # "findStatus") => (waiter'.delays = waiter.delays) ]_vars

\* C24 witness: no poll of a wait for running matched, the last one finding the
\* workflow finished, and undefined was returned after as many delays as polls.
C24_Witness ==
    /\ waiter.pc = "returned"
    /\ waiter.ret = Undefined
    /\ waiter.times = MaxTimes
    /\ waiter.delays = MaxTimes
    /\ waiter.found[MaxTimes] = Def("finished")

C26_PollStopsWhenAsked ==
    /\ [][ \A w \in Workers :
              /\ (poller[w].pc \in {"off", "goSleep"} /\ poller'[w].pc # poller[w].pc) =>
                    /\ \E stop \in BOOLEAN : poller'[w] = LoopTop(stop)
                    /\ store' = store
                    /\ runs' = runs
              /\ (poller[w].pc = "claim" /\ poller'[w].pc \in {"claim", "returned"}
                    /\ \E e \in Slots : Spawned(e) /\ runs'[e].worker = w) =>
                    \E stop \in BOOLEAN : poller'[w] = LoopTop(stop)
              /\ (poller[w].pc # "claim") =>
                    /\ \A e \in Slots : ~(Spawned(e) /\ runs'[e].worker = w)
                    /\ poller'[w].pc # "goSleep" \/ poller[w].pc = "goSleep"
              /\ (poller[w].pc = "returned") =>
                    \/ poller'[w] = poller[w]
                    \/ poller'[w] = Off /\ crashes' = crashes + 1 ]_vars
    /\ <>[](poller["w1"].pc = "returned")

\* C26 witness: poll has returned with a workflow left idle, after its worker
\* had run another workflow to its end.
C26_Witness ==
    /\ poller["w1"].pc = "returned"
    /\ DOMAIN store = {"W", "V"}
    /\ store["W"].status = "finished"
    /\ store["V"].status = "idle"

\* The workflows of the store that are idle, or running or failed with a
\* timeout before now.
Claimable ==
    {id \in DOMAIN store :
        \/ store[id].status = "idle"
        \/ /\ store[id].status \in {"running", "failed"}
           /\ store[id].timeoutAt # Undefined
           /\ Val(store[id].timeoutAt) < now}

\* C27: the workflows that claim may answer are the idle ones and the running
\* or failed ones whose stored timeout is before now, never a finished or
\* aborted one nor one whose timeout is now or later.  A claim that answers a
\* workflow sets, in the same step, its status to running and its timeout to
\* now + timeoutIntervalMs and changes nothing else in the store; a claim
\* answers none only when no workflow is ready, and then writes nothing.
C27_ClaimTakesReadyWorkflow ==
    /\ [](/\ Ready(store, now) = Claimable
          /\ \A id \in Ready(store, now) :
                /\ store[id].status \notin Terminal
                /\ store[id].timeoutAt # Undefined => ~(Val(store[id].timeoutAt) >= now /\ store[id].status # "idle"))
    /\ [][ /\ \A e \in Slots : Spawned(e) =>
                LET id == runs'[e].workflowId IN
                /\ id \in Claimable
                /\ store' = [store EXCEPT ![id].status = "running",
                                          ![id].timeoutAt = Def(now + timeoutIntervalMs)]
           /\ \A w \in Workers :
                (poller[w].pc = "claim" /\ poller'[w].pc = "goSleep") =>
                    /\ Claimable = {}
                    /\ store' = store ]_vars

\* C27 witness: claim has just answered a workflow that had failed once and
\* whose retry time had passed, and has set it to running for one timeout
\* interval.
C27_Witness ==
    \E e \in InFlight :
        /\ runs[e].pc = "findRunData"
        /\ store[runs[e].workflowId].status = "running"
        /\ store[runs[e].workflowId].timeoutAt = Def(now + timeoutIntervalMs)
        /\ store[runs[e].workflowId].failures = Def(1)
        /\ \A f \in InFlight : f = e

\* Workflow id is recorded as failed and its retry time has not passed.
FailedWaiting(id) ==
    /\ store[id].status = "failed"
    /\ Val(store[id].timeoutAt) >= now

\* C28: while a workflow is failed and its timeout has not passed, no claim
\* answers it and no run invokes its handler.
C28_FailedNotClaimedNorInvoked ==
    [][ \A id \in DOMAIN store : FailedWaiting(id) =>
            \A e \in Slots :
                /\ ~(Spawned(e) /\ runs'[e].workflowId = id)
                /\ ~(/\ At(e, "findRunData")
                     /\ runs[e].workflowId = id
                     /\ Stepped(e)
                     /\ runs'[e].pc # "free") ]_vars

\* C29: every write of the timeout made by a claim, by a step completion and
\* by a sleep scheduling of an execution stores an instant that is not before
\* the one stored until then.
C29_TimeoutAtNeverMovesBack ==
    [][ \A e \in Slots :
            LET id == IF Spawned(e) THEN runs'[e].workflowId ELSE runs[e].workflowId IN
            (\/ Spawned(e)
             \/ /\ Stepped(e)
                /\ runs[e].pc \in {"updateOutput", "updateWakeUpAt"}
                /\ id \in DOMAIN store) =>
                \/ store[id].timeoutAt = Undefined
                \/ Val(store'[id].timeoutAt) >= Val(store[id].timeoutAt) ]_vars

\* C30: a persistence call of a run that rejects leaves the store as it is, and
\* from then on that run records no status and no failure count: the workflow
\* stays running with the failures it had.
C30_StoreErrorLeavesWorkflowRunning ==
    [][ \A e \in Slots :
            LET id == runs[e].workflowId IN
            /\ RunStoreError(e) => store' = store
            /\ (/\ runs[e].pc # "free"
                /\ runs[e].error = Def(StoreError)
                /\ Stepped(e)
                /\ id \in DOMAIN store) =>
                    /\ store'[id].status = store[id].status
                    /\ store'[id].failures = store[id].failures ]_vars

----------------------------------------------------------------------------
(* C31..C40 *)

\* The changes of status of the state machine: claim takes idle, failed and
\* running to running, and a run takes running to finished, failed or aborted.
Transitions ==
    {<<"idle", "running">>, <<"running", "finished">>, <<"running", "failed">>,
     <<"running", "aborted">>, <<"failed", "running">>, <<"running", "running">>}

\* C31: every change of the stored status of a workflow is a transition of the
\* state machine, whichever run or claim wrote it.
C31_StatusChangesAreTransitions ==
    [][ \A id \in DOMAIN store :
            store'[id].status # store[id].status =>
                <<store[id].status, store'[id].status>> \in Transitions ]_vars

\* C32: when findRunData answers undefined, run rejects with 'workflow not
\* found', invokes no handler and writes nothing to the store.
C32_WorkflowNotFoundRejects ==
    [][ \A e \in Slots :
            (/\ At(e, "findRunData")
             /\ Stepped(e)
             /\ findRunData(store, runs[e].workflowId) = Undefined) =>
                /\ runs'[e] = Free
                /\ rejected' = rejected \cup {"workflow not found: " \o runs[e].workflowId}
                /\ store' = store ]_vars

\* C32 witness: a run of workflow W has rejected with 'workflow not found', the
\* record of W being gone.
C32_Witness ==
    /\ "workflow not found: W" \in rejected
    /\ "W" \notin DOMAIN store
    /\ InFlight = {}

\* C33: when the handler named by the run data is not registered, run rejects
\* with 'handler not found', invokes no handler and writes nothing: the record
\* of the workflow stays as the claim left it, status running.
C33_HandlerNotFoundRejects ==
    [][ \A e \in Slots :
            LET runData == findRunData(store, runs[e].workflowId) IN
            (/\ At(e, "findRunData")
             /\ runs'[e] # runs[e]
             /\ runData # Undefined
             /\ Val(runData).handler \notin DOMAIN handlers) =>
                /\ runs'[e] = Free
                /\ rejected' = rejected \cup {"handler not found: " \o Val(runData).handler}
                /\ store' = store
                /\ store'[runs[e].workflowId].status = "running" ]_vars

\* C33 witness: a run of W has rejected with 'handler not found', and W is
\* running with no failure recorded.
C33_Witness ==
    /\ ("handler not found: " \o Unregistered) \in rejected
    /\ InFlight = {}
    /\ store["W"].status = "running"
    /\ store["W"].failures = Undefined
    /\ store["W"].lastError = Undefined

\* C34: the stored failures of a workflow count its executions that ended with
\* a handler error: the step in which a run records its failure makes the
\* stored count one more than it was, and no other step changes it.
C34_FailuresCountFailedRuns ==
    [][ \A id \in DOMAIN store :
            IF \E e \in Slots : At(e, "updateStatus") /\ Stepped(e) /\ runs[e].workflowId = id
            THEN Failures(store', id) = Failures(store, id) + 1
            ELSE Failures(store', id) = Failures(store, id) ]_vars

\* The run in slot e is delaying inside sleep: its goSleep has not resolved.
Delaying(e) == runs[e].pc = "goSleep" /\ runs[e].wakeAt > now

\* C35: while a run is delaying inside sleep, the stored timeout of its
\* workflow is at or beyond the instant the delay ends, and no claim can
\* answer the workflow.
C35_SleepingWorkflowNotClaimable ==
    \A e \in InFlight : Delaying(e) =>
        LET id == runs[e].workflowId IN
        /\ id \in DOMAIN store
        /\ store[id].timeoutAt # Undefined
        /\ Val(store[id].timeoutAt) >= runs[e].wakeAt
        /\ id \notin Ready(store, now)

\* C36: a run that rejects before its handler is invoked leaves the poll loop
\* of its worker as it is: the loop goes on to its next claim.
C36_RunErrorLeavesPollRunning ==
    [][ \A e \in Slots :
            (At(e, "findRunData") /\ runs'[e] = Free /\ crashes' = crashes) =>
                poller'[runs[e].worker] = poller[runs[e].worker] ]_vars

\* The run invocations in flight that the poll loop of worker w has started.
InFlightOf(w) == {e \in InFlight : runs[e].worker = w}

\* C37: the runs in flight of one worker stay below a cap.  The poll loop has
\* no cap of its own, so the cap tried is the number of runs that the model
\* holds at all: a loop that capped its runs would leave a slot unused.
C37_InFlightRunsCapped ==
    \A w \in Workers : Cardinality(InFlightOf(w)) < MaxRuns

\* C38: a run makes one finalizing call at most.  The step in which its
\* updateStatus or its setAsFinished settles, answered or rejected, ends the
\* run, so neither call is followed by the other; a setAsFinished that rejects
\* leaves the store as it is, failures included.
C38_OneFinalizingWrite ==
    [][ \A e \in Slots :
            /\ ((At(e, "updateStatus") \/ At(e, "setAsFinished")) /\ runs'[e] # runs[e]) =>
                    runs'[e] = Free
            /\ (At(e, "setAsFinished") /\ RunStoreError(e)) =>
                    /\ store' = store
                    /\ rejected' = rejected \cup {StoreError.value}
            /\ (At(e, "setAsFinished") /\ runs'[e] # runs[e] /\ ~RunStoreError(e)
                    /\ crashes' = crashes /\ runs[e].workflowId \in DOMAIN store) =>
                    /\ store'[runs[e].workflowId].status = "finished"
                    /\ store'[runs[e].workflowId].failures = store[runs[e].workflowId].failures ]_vars

\* C38 witness: the handler of W has recorded both its steps and returned, the
\* setAsFinished of its run has rejected, and W is running with no failure
\* recorded.
C38_Witness ==
    /\ StoreError.value \in rejected
    /\ InFlight = {}
    /\ "W" \in DOMAIN store
    /\ store["W"].handler = "h"
    /\ DOMAIN store["W"].steps = {"a", "b"}
    /\ store["W"].status = "running"
    /\ store["W"].failures = Undefined

\* The runs of handler spawn whose ctx.start has returned: they await
\* setAsFinished, and hold what start returned.
StartReturned == {e \in InFlight : runs[e].handler = Def("spawn") /\ runs[e].pc = "setAsFinished"}

\* C39: whichever execution of a handler calls ctx.start first creates the
\* workflow and is answered true; a call made when the workflow exists, as
\* every call of a replay is, is answered false and leaves the whole store as
\* it is, the started workflow's status, failures, steps and naps included.  Of
\* the executions whose start has returned, at most one was answered true.
C39_ReplayedStartCreatesNothing ==
    /\ [](Cardinality({e \in StartReturned : runs[e].ret = Def(TRUE)}) <= 1)
    /\ [][ \A e \in Slots : (At(e, "insert") /\ Stepped(e)) =>
                LET id == Instr(runs[e]).id IN
                IF id \in DOMAIN store
                THEN /\ runs'[e].ret = Def(FALSE)
                     /\ store' = store
                ELSE /\ runs'[e].ret = Def(TRUE)
                     /\ DOMAIN store' = DOMAIN store \cup {id}
                     /\ store'[id].status = "idle" ]_vars

\* C39 witness: two executions of handler spawn have both called ctx.start for
\* V; one was answered true and the other, the replay, false.
C39_Witness ==
    /\ "V" \in DOMAIN store
    /\ \E e, f \in StartReturned :
            /\ runs[e].ret = Def(TRUE)
            /\ runs[f].ret = Def(FALSE)

\* Workflow id names a handler that is registered on no worker.
Ghost(id) == id \in DOMAIN store /\ store[id].handler = Unregistered

\* A run of workflow id has been started by a claim and awaits findRunData.
Attempt(id) == \E e \in InFlight : runs[e].workflowId = id /\ runs[e].pc = "findRunData"

====
